---- MODULE Spec2Model ----
(***************************************************************************)
(* Model of the QR generator service (src/src/main.rs): the colour parser, *)
(* the safe-zone calculator, the logo compositor with its f32 alpha blend, *)
(* the render function generate_qr_image and the caching request handler   *)
(* generate_qr over the shared moka cache.                                  *)
(***************************************************************************)
EXTENDS Integers, Sequences, FiniteSets, TLC

VARIABLES
    call,        \* the last application of a pure function: its inputs and result
    cache,       \* AppState.cache: QRCacheKey -> [bytes, inserted, accessed]
    now,         \* the cache's clock, in seconds
    pc,          \* per request task: its position in generate_qr
    req,         \* per request task: the QRParams it carries
    local,       \* per request task: the buffer generate_qr_image returned
    resp         \* per request task: the HTTP response it produced

vars == <<call, cache, now, pc, req, local, resp>>

-----------------------------------------------------------------------------
(* Option<T> and Result<T, E> *)

None == [tag |-> "None"]

Some(x) == [tag |-> "Some", val |-> x]

is_some(o) == o.tag = "Some"

unwrap_or(o, d) == IF is_some(o) THEN o.val ELSE d

Min(a, b) == IF a < b THEN a ELSE b

Pow2(n) == 2 ^ n

-----------------------------------------------------------------------------
(* Program constants *)

DefaultSize == 512

SafeZoneDivisor == 4

LogoMargin == 4

TimeToLive == 3600

TimeToIdle == 1800

\* .max_capacity(1000)
MaxCapacity == 1000

HexLen == 7

Black == <<0, 0, 0, 255>>

White == <<255, 255, 255, 255>>

-----------------------------------------------------------------------------
(* Rust strings.  A String is a sequence of chars; a char is written as a   *)
(* one-character string, and "U+00E9" stands for the two-byte char e-acute. *)
(* len() and the slice hex[i..j] count BYTES of the UTF-8 encoding.         *)

Utf8Len(c) == IF c = "U+00E9" THEN 2 ELSE 1

RECURSIVE ByteLen(_)
ByteLen(s) == IF s = <<>> THEN 0 ELSE Utf8Len(Head(s)) + ByteLen(Tail(s))

\* the number of chars of s that end at byte offset i, or -1 when i is not a
\* char boundary of s
CharsBefore(s, i) ==
    LET hits == {n \in 0..Len(s) : ByteLen(SubSeq(s, 1, n)) = i}
    IN  IF hits = {} THEN -1 ELSE CHOOSE n \in hits : TRUE

\* &s[i..j]: panics unless i and j are char boundaries
ByteSlice(s, i, j) ==
    LET a == CharsBefore(s, i)
        b == CharsBefore(s, j)
    IN  IF a = -1 \/ b = -1 \/ i > j
        THEN [tag |-> "Panic"]
        ELSE [tag |-> "Ok", val |-> SubSeq(s, a + 1, b)]

starts_with(s, c) == Len(s) > 0 /\ s[1] = c

HexDigits ==
    [c \in {"0", "1", "2", "3", "4", "5", "6", "7", "8", "9"} |->
        CASE c = "0" -> 0 [] c = "1" -> 1 [] c = "2" -> 2 [] c = "3" -> 3
          [] c = "4" -> 4 [] c = "5" -> 5 [] c = "6" -> 6 [] c = "7" -> 7
          [] c = "8" -> 8 [] c = "9" -> 9]
    @@ [c \in {"a", "b", "c", "d", "e", "f"} |->
        CASE c = "a" -> 10 [] c = "b" -> 11 [] c = "c" -> 12
          [] c = "d" -> 13 [] c = "e" -> 14 [] c = "f" -> 15]
    @@ [c \in {"A", "B", "C", "D", "E", "F"} |->
        CASE c = "A" -> 10 [] c = "B" -> 11 [] c = "C" -> 12
          [] c = "D" -> 13 [] c = "E" -> 14 [] c = "F" -> 15]

IsHexDigit(c) == c \in DOMAIN HexDigits

RECURSIVE DigitsValue(_, _)
DigitsValue(ds, acc) ==
    IF ds = <<>> THEN acc
    ELSE DigitsValue(Tail(ds), acc * 16 + HexDigits[Head(ds)])

\* u8::from_str_radix(src, 16): an optional leading '+', then hex digits only;
\* the empty string, a lone sign, a non-digit and a value over 255 are errors.
u8_from_str_radix(src) ==
    IF src = <<>> THEN [tag |-> "Err"]
    ELSE IF Len(src) = 1 /\ src[1] \in {"+", "-"} THEN [tag |-> "Err"]
    ELSE LET digits == IF src[1] = "+" THEN Tail(src) ELSE src
         IN  IF \E i \in 1..Len(digits) : ~IsHexDigit(digits[i])
             THEN [tag |-> "Err"]
             ELSE IF DigitsValue(digits, 0) > 255 THEN [tag |-> "Err"]
             ELSE [tag |-> "Ok", val |-> DigitsValue(digits, 0)]

\* one colour channel: u8::from_str_radix(&hex[i..j], 16)
Channel(hex, i, j) ==
    LET sl == ByteSlice(hex, i, j)
    IN  IF sl.tag = "Panic" THEN sl ELSE u8_from_str_radix(sl.val)

\* hex_to_rgba: Ok(colour), Err, or a panic of the byte slice
hex_to_rgba(hex) ==
    IF ByteLen(hex) # HexLen \/ ~starts_with(hex, "#") THEN [tag |-> "Err"]
    ELSE LET r == Channel(hex, 1, 3)
             g == Channel(hex, 3, 5)
             b == Channel(hex, 5, 7)
         IN  IF r.tag # "Ok" THEN [tag |-> r.tag]
             ELSE IF g.tag # "Ok" THEN [tag |-> g.tag]
             ELSE IF b.tag # "Ok" THEN [tag |-> b.tag]
             ELSE [tag |-> "Ok", val |-> <<r.val, g.val, b.val, 255>>]

\* params.xx_color.as_ref().and_then(|hex| hex_to_rgba(hex).ok()).unwrap_or(default)
\* a panic inside hex_to_rgba unwinds through the closure
ColorOrDefault(opt, default) ==
    IF ~is_some(opt) THEN [tag |-> "Ok", val |-> default]
    ELSE LET parsed == hex_to_rgba(opt.val)
         IN  CASE parsed.tag = "Ok" -> parsed
               [] parsed.tag = "Err" -> [tag |-> "Ok", val |-> default]
               [] OTHER -> [tag |-> "Panic"]

-----------------------------------------------------------------------------
(* calculate_safe_zone *)

\* a mutant that centres the zone with the wrong sign
calculate_safe_zone_off(qr_size) ==
    LET safe_size == qr_size \div SafeZoneDivisor
        start_x == (qr_size + safe_size) \div 2
        start_y == (qr_size + safe_size) \div 2
    IN  <<start_x, start_y, safe_size, safe_size>>

calculate_safe_zone(qr_size) ==
    LET safe_size == qr_size \div SafeZoneDivisor
        start_x == (qr_size - safe_size) \div 2
        start_y == (qr_size - safe_size) \div 2
    IN  <<start_x, start_y, safe_size, safe_size>>

-----------------------------------------------------------------------------
(* IEEE-754 binary32 arithmetic of the alpha blend, in integers.  A positive *)
(* f32 is [m, k] with value m / 2^k and 2^23 <= m < 2^24; zero is [0, 0].    *)
(* Every operation rounds to nearest, ties to even, as the hardware does.    *)

F32Zero == [m |-> 0, k |-> 0]

\* i + num/den rounded to the nearest integer, ties to even
RoundTiesEven(i, num, den) ==
    IF 2 * num > den \/ (2 * num = den /\ i % 2 = 1) THEN i + 1 ELSE i

\* a rounded mantissa that reached 2^24 moves up one binade
Normalize(m, k) == IF m = Pow2(24) THEN [m |-> Pow2(23), k |-> k - 1] ELSE [m |-> m, k |-> k]

RECURSIVE DivBits(_, _, _)
DivBits(q, r, k) ==
    IF q >= Pow2(23) THEN Normalize(RoundTiesEven(q, r, 255), k)
    ELSE IF 2 * r >= 255 THEN DivBits(2 * q + 1, 2 * r - 255, k + 1)
    ELSE DivBits(2 * q, 2 * r, k + 1)

\* pixel[3] as f32 / 255.0, for pixel[3] in 1..255
F32DivBy255(a) == DivBits(a \div 255, a % 255, 0)

RECURSIVE ShiftUp(_, _)
ShiftUp(n, k) == IF n >= Pow2(23) THEN [m |-> n, k |-> k] ELSE ShiftUp(2 * n, k + 1)

\* 1.0 - alpha, for alpha in (0, 1]
F32OneMinus(f) ==
    IF f.k = 23 THEN F32Zero
    ELSE IF f.k = 24 THEN ShiftUp(Pow2(24) - f.m, 24)
    ELSE LET s == f.k - 24
             qa == f.m \div Pow2(s)
             ra == f.m % Pow2(s)
         IN  IF ra = 0 THEN Normalize(Pow2(24) - qa, 24)
             ELSE Normalize(RoundTiesEven(Pow2(24) - qa - 1, Pow2(s) - ra, Pow2(s)), 24)

\* f * (n as f32), for a channel value n in 0..255
F32MulU8(f, n) ==
    IF f.m = 0 \/ n = 0 THEN F32Zero
    ELSE LET mh == f.m \div 256
             ml == f.m % 256
             A == mh * n + (ml * n) \div 256
             B == (ml * n) % 256
             s == CHOOSE t \in 0..8 :
                     A < Pow2(16 + t) /\ \A u \in 0..8 : A < Pow2(16 + u) => t <= u
             I == A * Pow2(8 - s) + B \div Pow2(s)
         IN  Normalize(RoundTiesEven(I, B % Pow2(s), Pow2(s)), f.k - s)

\* x + y for non-negative x and y
F32Add(x, y) ==
    IF x.m = 0 THEN y
    ELSE IF y.m = 0 THEN x
    ELSE LET hi == IF x.k <= y.k THEN x ELSE y
             lo == IF x.k <= y.k THEN y ELSE x
             d == lo.k - hi.k
         IN  IF d > 24 THEN hi
             ELSE LET I == hi.m + lo.m \div Pow2(d)
                      r == lo.m % Pow2(d)
                  IN  IF I < Pow2(24)
                      THEN Normalize(RoundTiesEven(I, r, Pow2(d)), hi.k)
                      ELSE Normalize(RoundTiesEven(I \div 2, (I % 2) * Pow2(d) + r,
                                                   Pow2(d + 1)), hi.k - 1)

\* f as u8: truncates toward zero and saturates at 255
F32AsU8(f) ==
    IF f.m = 0 \/ f.k > 23 THEN 0
    ELSE Min(255, f.m \div Pow2(f.k))

\* ((1.0 - alpha) * existing[c] as f32 + alpha * pixel[c] as f32) as u8
BlendChannel(a, existing, logo) ==
    LET alpha == F32DivBy255(a)
    IN  F32AsU8(F32Add(F32MulU8(F32OneMinus(alpha), existing), F32MulU8(alpha, logo)))

\* the pixel left at the target after one step of the overlay loop: the blend
\* when the logo pixel has alpha, the existing pixel untouched otherwise
Blend(existing, pixel) ==
    IF pixel[4] > 0
    THEN <<BlendChannel(pixel[4], existing[1], pixel[1]),
           BlendChannel(pixel[4], existing[2], pixel[2]),
           BlendChannel(pixel[4], existing[3], pixel[3]),
           255>>
    ELSE existing

-----------------------------------------------------------------------------
(* Pixel buffers.  An RgbaImage is [w, h, px]: px holds the w * h pixels in  *)
(* row-major order, each an <<r, g, b, a>> tuple.                            *)

RgbaImage_new(w, h) == [w |-> w, h |-> h, px |-> [i \in 1..(w * h) |-> <<0, 0, 0, 0>>]]

\* ImageBuffer::from_raw: None when the raw buffer is too short for w * h pixels
from_raw(w, h, raw) ==
    IF Len(raw) >= w * h
    THEN Some([w |-> w, h |-> h, px |-> SubSeq(raw, 1, w * h)])
    ELSE None

get_pixel(img, x, y) == img.px[y * img.w + x + 1]

\* qr_code_to!(content, "png", size).into_raw(): the QR encoder is an external
\* library, taken as a function from the text to a size * size bitmap of opaque
\* black (dark module) and opaque white pixels.  The module pattern used here
\* stands for the encoder's: alternating, shifted by the length of the text.
qr_code_to(content, size) ==
    [i \in 1..(size * size) |->
        LET x == (i - 1) % size
            y == (i - 1) \div size
        IN  IF (x + y + Len(content)) % 2 = 0 THEN Black ELSE White]

\* for pixel in image.pixels_mut() { *pixel = if pixel[0] == 0 { fg } else { bg } }
MapColors(img, fg_color, bg_color) ==
    [img EXCEPT !.px = [i \in DOMAIN img.px |->
                           IF img.px[i][1] = 0 THEN fg_color ELSE bg_color]]

\* the pixel loop with both colours parsed; a panic of the parser unwinds
MapParsed(img, fg_color, bg_color) ==
    IF fg_color.tag = "Panic" \/ bg_color.tag = "Panic"
    THEN [tag |-> "Panic"]
    ELSE [tag |-> "Ok", val |-> MapColors(img, fg_color.val, bg_color.val)]

\* the "Apply colors if provided" block: the image, or a panic of the parser
ApplyColors(img, fg, bg) ==
    IF is_some(fg) \/ is_some(bg)
    THEN MapParsed(img, ColorOrDefault(fg, Black), ColorOrDefault(bg, White))
    ELSE [tag |-> "Ok", val |-> img]

-----------------------------------------------------------------------------
(* The logo.  What the network answers is an input of the render:           *)
(*   [net |-> "error"]                        the request itself failed      *)
(*   [net |-> "ok", status, body]             a response arrived; its body   *)
(*       is [kind |-> "unreadable"] (bytes() fails), [kind |-> "garbage"]    *)
(*       (no image decodes from it) or [kind |-> "image", img |-> [w, h, px]] *)

\* image::resize_dimensions(w, h, nw, nh, fill = false) for a square source:
\* both ratios are equal, and each side is at least 1
resize_dimensions(img, nwidth, nheight) ==
    LET side == IF nwidth < nheight THEN nwidth ELSE nheight
    IN  IF side < 1 THEN <<1, 1>> ELSE <<side, side>>

\* every pixel of the image is the same
IsUniform(img) == \A i \in 1..Len(img.px) : img.px[i] = img.px[1]

\* The resizes whose Lanczos3 result is an exact function of the source pixels:
\* an empty target; a target of the source's dimensions (every other tap of the
\* kernel falls on a zero of sinc, the result rounds to the source); a uniform
\* source (the weights are normalised to sum 1); and 2 x 2 -> 1 x 1, where each
\* axis has two taps at -0.25 and +0.25, that is the weights 0.5 and 0.5.
\* Any other resize needs the values of sin() and is left out of the inputs.
Resamplable(img, nw, nh) ==
    \/ nw = 0 \/ nh = 0
    \/ nw = img.w /\ nh = img.h
    \/ IsUniform(img)
    \/ img.w = 2 /\ img.h = 2 /\ nw = 1 /\ nh = 1

\* 2 x 2 -> 1 x 1: vertical_sample then horizontal_sample keep f32 sums, which
\* are exact here (quarters below 256); the final f32 round() takes halves up
HalvedPixel(img) ==
    [j \in 1..4 |-> (img.px[1][j] + img.px[2][j] + img.px[3][j] + img.px[4][j] + 2) \div 4]

\* imageops::resize(img, nw, nh, FilterType::Lanczos3), on the resizes above
Resample(img, nw, nh) ==
    CASE nw = 0 \/ nh = 0 -> RgbaImage_new(nw, nh)
      [] nw # 0 /\ nh # 0 /\ nw = img.w /\ nh = img.h ->
            [w |-> nw, h |-> nh, px |-> img.px]
      [] nw # 0 /\ nh # 0 /\ ~(nw = img.w /\ nh = img.h) /\ IsUniform(img) ->
            [w |-> nw, h |-> nh, px |-> [i \in 1..(nw * nh) |-> img.px[1]]]
      [] nw = 1 /\ nh = 1 /\ img.w = 2 /\ img.h = 2 /\ ~IsUniform(img) ->
            [w |-> 1, h |-> 1, px |-> <<HalvedPixel(img)>>]

\* img.resize(logo_size, logo_size, Lanczos3): keeps the aspect ratio
ResizeTo(img, dims) == Resample(img, dims[1], dims[2])

ResizeWithin(img, logo_size) ==
    ResizeTo(img, resize_dimensions(img, logo_size, logo_size))

\* fetch_and_resize_logo: the three `?` and the resize; the status of the
\* response is never read
fetch_and_resize_logo(response, size) ==
    IF response.net # "ok" THEN [tag |-> "Err"]
    ELSE IF response.body.kind = "unreadable" THEN [tag |-> "Err"]
    ELSE IF response.body.kind = "garbage" THEN [tag |-> "Err"]
    ELSE [tag |-> "Ok", val |-> ResizeWithin(response.body.img, size \div SafeZoneDivisor)]

saturating_sub(a, b) == IF a >= b THEN a - b ELSE 0

\* a mutant of the bounds test that lets every coordinate through
InBounds_unchecked(x, y, size) == TRUE

\* if x < size && y < size  (lines 112 and 122)
InBounds(x, y, size) == x < size /\ y < size

\* the coordinates the backdrop loop writes: put_pixel(x, y, white)
BackdropCalls(size) ==
    LET zone == calculate_safe_zone(size)
    IN  {c \in (saturating_sub(zone[1], LogoMargin)..(zone[1] + zone[3] + LogoMargin - 1))
               \X (saturating_sub(zone[2], LogoMargin)..(zone[2] + zone[4] + LogoMargin - 1)) :
            InBounds(c[1], c[2], size)}

\* the overlay loop's steps that reach the bounds test and pass it, each as
\* <<target_x, target_y, logo pixel>>
OverlayTargets(size, logo) ==
    LET zone == calculate_safe_zone(size)
    IN  {<<zone[1] + c[1], zone[2] + c[2], get_pixel(logo, c[1], c[2])>> :
            c \in {d \in (0..(logo.w - 1)) \X (0..(logo.h - 1)) :
                      InBounds(zone[1] + d[1], zone[2] + d[2], size)}}

\* the coordinates the overlay loop hands to get_pixel and put_pixel
OverlayCalls(size, logo) ==
    {<<t[1], t[2]>> : t \in {u \in OverlayTargets(size, logo) : u[3][4] > 0}}

\* the overlay loop at one target: the blend of the logo pixel that lands
\* there, if one does
BlendHits(base, hits) ==
    IF hits = {} THEN base ELSE Blend(base, (CHOOSE t \in hits : TRUE)[3])

\* one pixel of the buffer after the backdrop loop and then the overlay loop
CompositePixel(old, x, y, backdrop, overlay) ==
    BlendHits(IF <<x, y>> \in backdrop THEN White ELSE old,
              {t \in overlay : t[1] = x /\ t[2] = y})

\* the pixel buffer after both loops
Composite(img, backdrop, overlay) ==
    [w |-> img.w, h |-> img.h,
     px |-> [i \in DOMAIN img.px |->
                CompositePixel(img.px[i], (i - 1) % img.w, (i - 1) \div img.w,
                               backdrop, overlay)]]

\* put_pixel and get_pixel panic on a coordinate outside the buffer
DrawLogo(img, size, logo, calls) ==
    IF \E c \in calls : c[1] >= img.w \/ c[2] >= img.h
    THEN [tag |-> "Panic", calls |-> calls, logo |-> TRUE]
    ELSE [tag |-> "Ok", calls |-> calls, logo |-> TRUE,
          val |-> Composite(img, BackdropCalls(size), OverlayTargets(size, logo))]

\* the body of `if let Ok(mut logo) = ...`: the second resize, then both loops
WithLogo(img, size, logo) ==
    DrawLogo(img, size, logo, BackdropCalls(size) \cup OverlayCalls(size, logo))

\* `if let Ok(mut logo) = fetch_and_resize_logo(..)`: a failed fetch is dropped
WithFetched(img, size, fetched) ==
    IF fetched.tag # "Ok"
    THEN [tag |-> "Ok", val |-> img, calls |-> {}, logo |-> FALSE]
    ELSE WithLogo(img, size,
                  Resample(fetched.val, calculate_safe_zone(size)[3],
                           calculate_safe_zone(size)[4]))

\* the "Add logo if provided" block: the buffer, the coordinates it handed to
\* put_pixel / get_pixel, and whether a logo was composited
AddLogo(img, size, logo_url, response) ==
    IF ~is_some(logo_url)
    THEN [tag |-> "Ok", val |-> img, calls |-> {}, logo |-> FALSE]
    ELSE WithFetched(img, size, fetch_and_resize_logo(response, size))

\* image.write_to(.., Png): the encoder either fails or yields the signature,
\* the dimensions and the pixel data (compression is not modelled)
write_to_png(img, encoder_ok) ==
    IF encoder_ok
    THEN [tag |-> "Ok", val |-> <<"PNG", img.w, img.h>> \o img.px]
    ELSE [tag |-> "Err"]

\* Ok(buffer), or the encoder's error through `?`
Encoded(composed, buffer) ==
    [tag |-> buffer.tag,
     bytes |-> IF buffer.tag = "Ok" THEN buffer.val ELSE <<>>,
     image |-> composed.val, calls |-> composed.calls, logo |-> composed.logo]

\* lines 140-144 after the logo block
AfterLogo(composed, encoder_ok) ==
    IF composed.tag = "Panic"
    THEN [tag |-> "Panic", calls |-> composed.calls, logo |-> composed.logo]
    ELSE Encoded(composed, write_to_png(composed.val, encoder_ok))

\* lines 96-144 after the colour block
AfterColors(colored, size, logo_url, response, encoder_ok) ==
    IF colored.tag = "Panic"
    THEN [tag |-> "Panic", calls |-> {}, logo |-> FALSE]
    ELSE AfterLogo(AddLogo(colored.val, size, logo_url, response), encoder_ok)

\* generate_qr_image(params, size), given what the network answers to the logo
\* request and whether the encoder succeeds
generate_qr_image(params, size, response, encoder_ok) ==
    AfterColors(ApplyColors(unwrap_or(from_raw(size, size, qr_code_to(params.content, size)),
                                      RgbaImage_new(size, size)),
                            params.fg_color, params.bg_color),
                size, params.logo_url, response, encoder_ok)

-----------------------------------------------------------------------------
(* Inputs *)

EmptyMap == [k \in {} |-> None]

NoCall == [fn |-> "none"]

Tasks == {"t1", "t2"}

NoRequest == [tag |-> "None"]

NoBuffer == [tag |-> "None"]

NoResponse == [status |-> 0, body |-> <<>>, from |-> "none"]

\* the server before its first request, with the request tasks T
ServerIdleOf(T) ==
    /\ cache = EmptyMap
    /\ now = 0
    /\ pc = [t \in T |-> "idle"]
    /\ req = [t \in T |-> NoRequest]
    /\ local = [t \in T |-> NoBuffer]
    /\ resp = [t \in T |-> NoResponse]

ServerIdle == ServerIdleOf(Tasks)

serverVars == <<cache, now, pc, req, local, resp>>

\* sizes handed to calculate_safe_zone
MaxSafeZoneSize == 128

SafeZoneSizes == (0..MaxSafeZoneSize) \cup {DefaultSize}

\* colour strings: an optional lead, then three groups of chars
ColorLeads == {<<>>, <<"#">>, <<"1">>, <<"+">>}

ColorGroups ==
    {<<"1", "a">>, <<"F", "f">>, <<"0", "9">>, <<"+", "1">>, <<"1", "+">>,
     <<"-", "1">>, <<"g", "1">>, <<"1">>, <<"U+00E9">>, <<"a", "U+00E9">>,
     <<"1", "a", "2">>}

ColorStrings ==
    {l \o g1 \o g2 \o g3 : l \in ColorLeads, g1 \in ColorGroups,
                           g2 \in ColorGroups, g3 \in ColorGroups}

\* pixels handed to the blend
ChannelSamples == {0, 1, 127, 128, 255}

AlphaSamples == {0, 1, 2, 64, 127, 128, 129, 254, 255}

ExistingPixels == {<<r, g, 255, 255>> : r \in ChannelSamples, g \in ChannelSamples}

LogoPixels ==
    {<<r, g, 0, a>> : r \in ChannelSamples, g \in ChannelSamples, a \in AlphaSamples}

\* decoded logo images: one opaque, one with transparent and translucent pixels
OpaqueLogo == [w |-> 2, h |-> 2, px |-> [i \in 1..4 |-> <<200, 30, 30, 255>>]]

MixedLogo ==
    [w |-> 2, h |-> 2,
     px |-> << <<0, 0, 255, 128>>, <<9, 9, 9, 0>>, <<10, 200, 10, 1>>, <<255, 255, 255, 254>> >>]

Bodies ==
    {[kind |-> "unreadable"], [kind |-> "garbage"],
     [kind |-> "image", img |-> OpaqueLogo], [kind |-> "image", img |-> MixedLogo]}

Responses ==
    {[net |-> "error"]}
    \cup {[net |-> "ok", status |-> st, body |-> b] : st \in {200, 404}, b \in Bodies}

\* the responses whose logo, at this request size, goes through resizes that
\* Resample covers (both resizes: to the logo size, then to the safe zone)
LogoResamplable(img, size) ==
    /\ Resamplable(img, resize_dimensions(img, size \div SafeZoneDivisor, size \div SafeZoneDivisor)[1],
                    resize_dimensions(img, size \div SafeZoneDivisor, size \div SafeZoneDivisor)[2])
    /\ Resamplable(ResizeWithin(img, size \div SafeZoneDivisor),
                    calculate_safe_zone(size)[3], calculate_safe_zone(size)[4])

ResponsesFor(size) ==
    {r \in Responses :
        (r.net = "ok" /\ r.body.kind = "image") => LogoResamplable(r.body.img, size)}

\* requests handed to generate_qr_image alone
MaxRenderSize == 12

RenderSizes == 0..MaxRenderSize

RenderColors ==
    {None, Some(<<"#", "1", "0", "2", "0", "3", "0">>), Some(<<"r", "e", "d">>),
     Some(<<"#", "a", "U+00E9", "1", "2", "3">>)}

RenderParams ==
    [content : {"", "ab"}, fg_color : RenderColors, bg_color : RenderColors,
     logo_url : {None, Some("http://logo")}]

-----------------------------------------------------------------------------
(* Applications of the pure functions: the initial state draws the inputs,   *)
(* the action applies the function and records what it returned.             *)

InitSafeZone ==
    /\ ServerIdle
    /\ call \in {[fn |-> "calculate_safe_zone", done |-> FALSE, size |-> size] :
                    size \in SafeZoneSizes}

SafeZoneCall ==
    /\ ~call.done
    /\ call' = [fn |-> call.fn, done |-> TRUE, size |-> call.size,
                zone |-> calculate_safe_zone(call.size)]
    /\ UNCHANGED serverVars

\* the colour block of generate_qr_image on a 2 x 2 QR bitmap, with the string
\* in one slot and nothing in the other
InitColor ==
    /\ ServerIdle
    /\ call \in {[fn |-> "apply_colors", done |-> FALSE, hex |-> hex, slot |-> slot,
                  image |-> from_raw(2, 2, qr_code_to("ab", 2)).val] :
                    hex \in ColorStrings, slot \in {"fg", "bg"}}

ColorCall ==
    /\ ~call.done
    /\ LET fg == IF call.slot = "fg" THEN Some(call.hex) ELSE None
           bg == IF call.slot = "bg" THEN Some(call.hex) ELSE None
       IN  call' = [fn |-> call.fn, done |-> TRUE, hex |-> call.hex,
                    slot |-> call.slot, image |-> call.image,
                    parsed |-> hex_to_rgba(call.hex),
                    ret |-> ApplyColors(call.image, fg, bg)]
    /\ UNCHANGED serverVars

InitBlend ==
    /\ ServerIdle
    /\ call \in {[fn |-> "blend", done |-> FALSE, existing |-> existing, pixel |-> pixel] :
                    existing \in ExistingPixels, pixel \in LogoPixels}

BlendCall ==
    /\ ~call.done
    /\ call' = [fn |-> call.fn, done |-> TRUE, existing |-> call.existing,
                pixel |-> call.pixel, ret |-> Blend(call.existing, call.pixel)]
    /\ UNCHANGED serverVars

InitRender ==
    /\ ServerIdle
    /\ \E size \in RenderSizes :
          call \in {[fn |-> "generate_qr_image", done |-> FALSE, params |-> params,
                     size |-> size, response |-> response, encoder_ok |-> encoder_ok] :
                       params \in RenderParams, response \in ResponsesFor(size),
                       encoder_ok \in BOOLEAN}

RenderCall ==
    /\ ~call.done
    /\ call' = [fn |-> call.fn, done |-> TRUE, params |-> call.params,
                size |-> call.size, response |-> call.response,
                encoder_ok |-> call.encoder_ok,
                ret |-> generate_qr_image(call.params, call.size, call.response,
                                          call.encoder_ok)]
    /\ UNCHANGED serverVars

SpecSafeZone == InitSafeZone /\ [][SafeZoneCall]_vars

SpecColor == InitColor /\ [][ColorCall]_vars

SpecBlend == InitBlend /\ [][BlendCall]_vars

SpecRender == InitRender /\ [][RenderCall]_vars

-----------------------------------------------------------------------------
(* The request handler generate_qr over the shared cache.  Each task runs    *)
(* one request at a time; tasks interleave at the handler's await points:    *)
(* after cache.get, inside generate_qr_image, and after cache.insert.        *)

\* the latest time the clock is advanced to: with both tasks running, and
\* with one task over the whole life of an entry
MaxNowConcurrent == 1800

MaxNow == 3600

OneTask == {"t1"}

TickSteps == {900}

ServerParams ==
    [content : {"", "a"}, size : {Some(4)}, fg_color : {None}, bg_color : {None},
     logo_url : {None, Some("http://logo")}]

ServerResponses ==
    {[net |-> "error"],
     [net |-> "ok", status |-> 200, body |-> [kind |-> "image", img |-> OpaqueLogo]]}

\* let size = params.size.unwrap_or(512)
SizeOf(params) == unwrap_or(params.size, DefaultSize)

\* a mutant of the cache key that also holds the logo URL
QRCacheKey_with_logo(params) ==
    [content |-> params.content, size |-> SizeOf(params),
     fg_color |-> params.fg_color, bg_color |-> params.bg_color,
     logo_url |-> params.logo_url]

\* QRCacheKey { content, size, fg_color, bg_color }
QRCacheKey(params) ==
    [content |-> params.content, size |-> SizeOf(params),
     fg_color |-> params.fg_color, bg_color |-> params.bg_color]

\* a mutant of the expiry that forgets the idle clock
IsExpired_ttl_only(entry, t) == t - entry.inserted >= TimeToLive

\* the cache's policy: time_to_live(3600 s) from the insert, time_to_idle(1800 s)
\* from the last read or write; an entry is gone once either has elapsed
IsExpired(entry, t) ==
    \/ t - entry.inserted >= TimeToLive
    \/ t - entry.accessed >= TimeToIdle

\* data.cache.get(&cache_key)
cache_get(c, key, t) ==
    IF key \in DOMAIN c /\ ~IsExpired(c[key], t) THEN Some(c[key].bytes) ELSE None

\* generate_qr up to its first await results: the key is built and the cache
\* is read; a hit is answered at once
Lookup(t, params) ==
    /\ pc[t] = "idle"
    /\ LET cache_key == QRCacheKey(params)
           cached_data == cache_get(cache, cache_key, now)
       IN  /\ req' = [req EXCEPT ![t] = Some(params)]
           /\ IF is_some(cached_data)
              THEN /\ resp' = [resp EXCEPT ![t] =
                                  [status |-> 200, body |-> cached_data.val, from |-> "cache"]]
                   /\ cache' = [cache EXCEPT ![cache_key].accessed = now]
                   /\ pc' = [pc EXCEPT ![t] = "done"]
              ELSE /\ pc' = [pc EXCEPT ![t] = "render"]
                   /\ UNCHANGED <<resp, cache>>
    /\ UNCHANGED <<call, now, local>>

\* a mutant of the outcome that hands a failed encode on to the insert
Rendered_store_on_error(t, out) ==
    /\ out.tag # "Panic"
    /\ local' = [local EXCEPT ![t] = [tag |-> out.tag, bytes |-> out.bytes,
                                      logo |-> out.logo]]
    /\ pc' = [pc EXCEPT ![t] = "store"]
    /\ UNCHANGED resp

\* what generate_qr does with the outcome of generate_qr_image: Ok goes on to
\* the insert, Err is answered with an internal error, a panic ends the task
Rendered(t, out) ==
    IF out.tag = "Ok"
    THEN /\ local' = [local EXCEPT ![t] = [tag |-> "Ok", bytes |-> out.bytes,
                                           logo |-> out.logo]]
         /\ pc' = [pc EXCEPT ![t] = "store"]
         /\ UNCHANGED resp
    ELSE IF out.tag = "Err"
    THEN /\ local' = [local EXCEPT ![t] = [tag |-> "Err", bytes |-> <<>>,
                                           logo |-> out.logo]]
         /\ resp' = [resp EXCEPT ![t] =
                        [status |-> 500, body |-> <<>>, from |-> "error"]]
         /\ pc' = [pc EXCEPT ![t] = "done"]
    ELSE /\ pc' = [pc EXCEPT ![t] = "panicked"]
         /\ UNCHANGED <<local, resp>>

\* generate_qr_image(&params, size).await.map_err(ErrorInternalServerError)?
Render(t, response, encoder_ok) ==
    /\ pc[t] = "render"
    /\ Rendered(t, generate_qr_image(req[t].val, SizeOf(req[t].val), response, encoder_ok))
    /\ UNCHANGED <<call, cache, now, req>>

\* a mutant of the insert that keeps an entry that is already there
Store_keep_first(t) ==
    /\ pc[t] = "store"
    /\ LET cache_key == QRCacheKey(req[t].val)
           entry == [bytes |-> local[t].bytes, inserted |-> now, accessed |-> now]
       IN  /\ cache' = IF cache_key \in DOMAIN cache THEN cache
                       ELSE (cache_key :> entry) @@ cache
    /\ resp' = [resp EXCEPT ![t] =
                   [status |-> 200, body |-> local[t].bytes, from |-> "render"]]
    /\ pc' = [pc EXCEPT ![t] = "done"]
    /\ UNCHANGED <<call, now, req, local>>

\* data.cache.insert(cache_key, buffer.clone()).await, then the response
Store(t) ==
    /\ pc[t] = "store"
    /\ LET cache_key == QRCacheKey(req[t].val)
           entry == [bytes |-> local[t].bytes, inserted |-> now, accessed |-> now]
       IN  /\ cache' = (cache_key :> entry) @@ cache
    /\ resp' = [resp EXCEPT ![t] =
                   [status |-> 200, body |-> local[t].bytes, from |-> "render"]]
    /\ pc' = [pc EXCEPT ![t] = "done"]
    /\ UNCHANGED <<call, now, req, local>>

\* the response is sent and the task is free for the next request
Complete(t) ==
    /\ pc[t] \in {"done", "panicked"}
    /\ pc' = [pc EXCEPT ![t] = "idle"]
    /\ req' = [req EXCEPT ![t] = NoRequest]
    /\ local' = [local EXCEPT ![t] = NoBuffer]
    /\ resp' = [resp EXCEPT ![t] = NoResponse]
    /\ UNCHANGED <<call, cache, now>>

\* time passes
Tick(d, max) ==
    /\ now + d <= max
    /\ now' = now + d
    /\ UNCHANGED <<call, cache, pc, req, local, resp>>

\* the cache's housekeeping drops an expired entry, or any entry (the one just
\* inserted included) while the cache holds more than max_capacity entries
Evict(key) ==
    /\ key \in DOMAIN cache
    /\ IsExpired(cache[key], now) \/ Cardinality(DOMAIN cache) > MaxCapacity
    /\ cache' = [k \in DOMAIN cache \ {key} |-> cache[k]]
    /\ UNCHANGED <<call, now, pc, req, local, resp>>

Init == call = NoCall /\ ServerIdle

NextOf(T, max) ==
    \/ \E t \in T, params \in ServerParams : Lookup(t, params)
    \/ \E t \in T, response \in ServerResponses, encoder_ok \in BOOLEAN :
          Render(t, response, encoder_ok)
    \/ \E t \in T : Store(t)
    \/ \E t \in T : Complete(t)
    \/ \E d \in TickSteps : Tick(d, max)
    \/ \E key \in DOMAIN cache : Evict(key)

Next == NextOf(Tasks, MaxNowConcurrent)

\* two concurrent request tasks
Spec == Init /\ [][Next]_vars

InitExpiry == call = NoCall /\ ServerIdleOf(OneTask)

NextExpiry == NextOf(OneTask, MaxNow)

\* one request task over the whole life of a cache entry
SpecExpiry == InitExpiry /\ [][NextExpiry]_vars

-----------------------------------------------------------------------------
(* Properties *)

\* two requests that agree on content, size, fg_color and bg_color
SameButLogo(p, q) ==
    /\ p.content = q.content
    /\ SizeOf(p) = SizeOf(q)
    /\ p.fg_color = q.fg_color
    /\ p.bg_color = q.bg_color

\* the step in which task t takes a request and reads the cache
LookupStep(t) == pc[t] = "idle" /\ pc'[t] # "idle"

\* the step in which task t inserts its buffer and answers
StoreStep(t) == pc[t] = "store" /\ pc'[t] = "done"

\* C1: a request that differs from another only in logo_url has the same
\* fingerprint, and while the entry stored under that fingerprint is neither
\* expired nor evicted the request is answered from the cache with exactly
\* the stored bytes, without rendering (and so without fetching its logo).
C1_LogoUrlOutsideFingerprint ==
    [][\A t \in Tasks : LookupStep(t) =>
          \A p \in ServerParams : SameButLogo(p, req'[t].val) =>
              /\ QRCacheKey(p) = QRCacheKey(req'[t].val)
              /\ (QRCacheKey(p) \in DOMAIN cache /\ ~IsExpired(cache[QRCacheKey(p)], now))
                     => /\ pc'[t] = "done"
                        /\ resp'[t] = [status |-> 200,
                                       body |-> cache[QRCacheKey(p)].bytes,
                                       from |-> "cache"]
                        /\ local'[t] = NoBuffer]_vars

\* a request with a logo_url was answered from the cache with the bytes another
\* task rendered and stored for a request without one
C1_Witness ==
    \E t \in Tasks, u \in Tasks :
        /\ pc[t] = "done" /\ pc[u] = "done"
        /\ resp[u].from = "render" /\ resp[t].from = "cache"
        /\ is_some(req[t].val.logo_url) /\ ~is_some(req[u].val.logo_url)
        /\ SameButLogo(req[t].val, req[u].val)
        /\ resp[t].body = resp[u].body
        /\ local[t] = NoBuffer

\* C2: every coordinate the backdrop loop and the overlay loop hand to
\* put_pixel / get_pixel lies in [0, size) x [0, size), and no render panics
\* inside the logo block, whatever the size and the logo.
C2_CompositingInBounds ==
    call.done =>
        /\ \A c \in call.ret.calls :
              c[1] >= 0 /\ c[1] < call.size /\ c[2] >= 0 /\ c[2] < call.size
        /\ call.ret.tag = "Panic" => ~call.ret.logo

\* a logo was composited into a buffer so small that the safe zone plus the
\* margin passes its edge
C2_Witness ==
    /\ call.done
    /\ call.ret.tag = "Ok" /\ call.ret.logo
    /\ call.size >= SafeZoneDivisor
    /\ calculate_safe_zone(call.size)[1] + calculate_safe_zone(call.size)[3] + LogoMargin
          > call.size
    /\ \E c \in call.ret.calls : c[1] = call.size - 1 /\ c[2] = call.size - 1

\* a colour string of exactly 7 chars: '#' and 6 hexadecimal digits
WellFormedHex(hex) ==
    /\ Len(hex) = 7
    /\ hex[1] = "#"
    /\ \A i \in 2..7 : IsHexDigit(hex[i])

\* C3: a colour string that is not '#' followed by 6 hexadecimal digits never
\* makes the colour block fail, and the default of its slot is used (black
\* foreground, white background).
C3_MalformedColorFallsBack ==
    (call.done /\ ~WellFormedHex(call.hex)) =>
        /\ call.ret.tag = "Ok"
        /\ call.ret.val = MapColors(call.image, Black, White)

\* the three ways the logo fetch fails
FetchFailed(response) ==
    IF response.net # "ok" THEN TRUE
    ELSE response.status \div 100 # 2 \/ response.body.kind # "image"

\* C4: with a logo_url and a logo fetch that ends in a network failure, a
\* non-2xx response or an undecodable payload, the render composites no logo:
\* no pixel is touched, the image is the plain QR image and the render succeeds.
C4_FailedFetchMeansNoLogo ==
    (/\ call.done
     /\ is_some(call.params.logo_url)
     /\ FetchFailed(call.response)
     /\ call.encoder_ok
     /\ call.ret.tag # "Panic") =>
        /\ call.ret.tag = "Ok"
        /\ ~call.ret.logo
        /\ call.ret.calls = {}
        /\ call.ret.bytes =
              generate_qr_image([call.params EXCEPT !.logo_url = None], call.size,
                                call.response, TRUE).bytes

\* C5: when the encoder fails the request ends with an internal error and no
\* body, and the task inserts nothing: the cache is as it was, in that step
\* and in the task's remaining step.
C5_EncodeFailureIsInternalError ==
    [][\A t \in Tasks :
          /\ (pc[t] = "render" /\ pc'[t] # "render" /\ local'[t].tag = "Err") =>
                /\ pc'[t] = "done"
                /\ resp'[t].status = 500
                /\ resp'[t].body = <<>>
                /\ cache' = cache
          /\ (pc[t] = "done" /\ local[t].tag = "Err" /\ pc'[t] # "done") =>
                /\ pc'[t] = "idle"
                /\ cache' = cache]_vars

\* a request ended with the internal error and its fingerprint is not cached
C5_Witness ==
    \E t \in Tasks :
        /\ pc[t] = "done"
        /\ local[t].tag = "Err"
        /\ resp[t] = [status |-> 500, body |-> <<>>, from |-> "error"]
        /\ QRCacheKey(req[t].val) \notin DOMAIN cache

\* C6: a request with empty content is refused before composition: it is never
\* rendered, never encoded, never answered with an image, and nothing is
\* cached under its fingerprint.
C6_EmptyContentRefused ==
    /\ \A t \in Tasks :
          (pc[t] # "idle" /\ req[t].val.content = "") =>
              /\ pc[t] \notin {"render", "store"}
              /\ local[t] = NoBuffer
              /\ resp[t].status # 200
    /\ \A k \in DOMAIN cache : k.content # ""

\* C7: the bytes of a cache entry change only by the insert of one task, which
\* puts that task's whole buffer there, and every insert does so whatever was
\* there before: after two misses on one fingerprint the entry is the buffer
\* of the insert that came last.
C7_LastWriterWins ==
    [][/\ \A k \in DOMAIN cache' :
             \/ k \in DOMAIN cache /\ cache'[k].bytes = cache[k].bytes
             \/ \E t \in Tasks : /\ StoreStep(t)
                                 /\ QRCacheKey(req[t].val) = k
                                 /\ local[t].tag = "Ok"
                                 /\ cache'[k].bytes = local[t].bytes
       /\ \A t \in Tasks : StoreStep(t) =>
             /\ QRCacheKey(req[t].val) \in DOMAIN cache'
             /\ cache'[QRCacheKey(req[t].val)].bytes = local[t].bytes]_vars

\* with no time passed, both tasks missed on one fingerprint, rendered different
\* bytes and inserted; the entry holds the bytes of one of them whole
C7_Witness ==
    /\ now = 0
    /\ \E t \in Tasks, u \in Tasks :
          /\ pc[t] = "done" /\ pc[u] = "done"
          /\ resp[t].from = "render" /\ resp[u].from = "render"
          /\ QRCacheKey(req[t].val) = QRCacheKey(req[u].val)
          /\ resp[t].body # resp[u].body
          /\ QRCacheKey(req[t].val) \in DOMAIN cache
          /\ cache[QRCacheKey(req[t].val)].bytes = resp[u].body

\* C8: a lookup 3600 s or more after the entry's insert, or 1800 s or more
\* after its last access, misses and the request goes on to render; a lookup
\* at the time of the insert is answered with the inserted bytes.
C8_EntryServedOnlyUnexpired ==
    [][\A t \in OneTask : LookupStep(t) =>
          LET k == QRCacheKey(req'[t].val)
          IN  k \in DOMAIN cache =>
                 /\ (now - cache[k].inserted >= 3600 \/ now - cache[k].accessed >= 1800)
                       => (pc'[t] = "render" /\ resp'[t] = NoResponse)
                 /\ cache[k].inserted = now
                       => (pc'[t] = "done" /\ resp'[t].status = 200
                           /\ resp'[t].body = cache[k].bytes)
                 /\ pc'[t] = "done" => cache'[k].accessed = now]_vars

\* a request is being rendered again although its entry is still in the cache:
\* the entry was read within the last 1800 s but inserted 3600 s ago
C8_Witness ==
    \E t \in OneTask :
        /\ pc[t] = "render"
        /\ QRCacheKey(req[t].val) \in DOMAIN cache
        /\ now - cache[QRCacheKey(req[t].val)].inserted >= 3600
        /\ now - cache[QRCacheKey(req[t].val)].accessed < 1800

\* (1 - a) * existing + a * logo with a = alpha / 255, to the nearest integer
NearestMix(alpha, existing, logo) ==
    (2 * ((255 - alpha) * existing + alpha * logo) + 255) \div 510

\* C9: a logo pixel with alpha leaves, in each colour channel, the mix of the
\* existing and the logo value rounded to the nearest integer, and alpha 255;
\* a logo pixel with zero alpha leaves the target as it was.
C9_BlendRoundsToNearest ==
    call.done =>
        IF call.pixel[4] > 0
        THEN /\ \A c \in 1..3 :
                   call.ret[c] = NearestMix(call.pixel[4], call.existing[c], call.pixel[c])
             /\ call.ret[4] = 255
        ELSE call.ret = call.existing

\* C10: calculate_safe_zone(size) is a square of side size / 4 centred in the
\* buffer and inside it; size 512 gives (192, 192, 128, 128).
C10_SafeZoneCentredInside ==
    call.done =>
        /\ call.zone[3] = call.size \div 4
        /\ call.zone[4] = call.size \div 4
        /\ call.zone[1] = (call.size - call.zone[3]) \div 2
        /\ call.zone[2] = (call.size - call.zone[4]) \div 2
        /\ call.zone[1] + call.zone[3] <= call.size
        /\ call.zone[2] + call.zone[4] <= call.size
        /\ call.size = 512 => call.zone = <<192, 192, 128, 128>>

\* the safe zone of the default size has been computed
C10_Witness ==
    /\ call.done
    /\ call.size = 512
    /\ call.zone = <<192, 192, 128, 128>>

====
